---- MODULE Spec2Model ----
(***************************************************************************)
(* Unrolled ADMM deconvolution (models/Unrolled_ADMM_Gaussian.py) and the  *)
(* spectral utilities it relies on (utils/utils_torch.py).                 *)
(*                                                                         *)
(* Two levels of detail are used.                                          *)
(*  - The controller (Unrolled_ADMM_Gaussian.forward and everything it     *)
(*    calls) works on tensors [b, h, w, v]: the batch size, the spatial    *)
(*    shape, and per batch element one exact rational number, the DC bin   *)
(*    of that element (the sum of its pixels).  Shapes follow the code     *)
(*    exactly, broadcasting included; the arithmetic on the DC bin is the  *)
(*    code's arithmetic on every frequency bin, in exact rationals.        *)
(*  - The index arithmetic of padding, cropping and origin shifting is     *)
(*    modelled on whole two-dimensional arrays whose entries are tags      *)
(*    (the coordinates the entry had in the input), under SpecUtil.        *)
(***************************************************************************)
EXTENDS Integers, Sequences, FiniteSets, TLC

VARIABLES n_iters, subnet, training, rho_iters, net, bn_mean, f,
          upc, ua, ub

modvars == <<n_iters, subnet, training, rho_iters, net, bn_mean>>
utilvars == <<upc, ua, ub>>
vars == <<n_iters, subnet, training, rho_iters, net, bn_mean, f, upc, ua, ub>>

(* ------------------------------ bounds --------------------------------- *)
MaxIters == 2
MaxBatch == 2
MaxSide == 2
MaxKer == 5

(* ------------------------- program constants --------------------------- *)
\* SubNet.forward pads every kernel to 128 x 128.
WorkSize == 128
\* SubNet.conv_layers: four Down blocks, each a DoubleConv of two
\* (conv => BN => ReLU) stages.
NumStages == 8

(* ----------------------- exact rational numbers ------------------------ *)
\* A number is <<numerator, denominator>> in lowest terms, denominator > 0.
\* <<0, 0>> stands for a non-finite float (inf or NaN).  Every operation the
\* program applies to a non-finite operand yields a non-finite result,
\* because no divisor in the program can itself be non-finite.
Abs(a) == IF a < 0 THEN -a ELSE a

\* Op(a) and Op(a, c) with the operands evaluated once, as a call evaluates
\* its arguments.
Once(Op(_), a) == CHOOSE r \in {Op(x) : x \in {a}} : TRUE
Once2(Op(_, _), a, c) == CHOOSE r \in {Op(x, y) : x \in {a}, y \in {c}} : TRUE

RECURSIVE Gcd(_, _)
Gcd(a, b) == IF b = 0 THEN a ELSE Once2(Gcd, b, a % b)

NonFinite == <<0, 0>>

Finite(q) == q[2] # 0

Norm(n, d) ==
    IF d = 0 THEN NonFinite
    ELSE LET g == Gcd(Abs(n), Abs(d))
             s == IF d < 0 THEN -1 ELSE 1
         IN  <<s * (n \div g), s * (d \div g)>>

R(n) == <<n, 1>>

\* Common factors are cancelled before multiplying, to keep the integers
\* small.
RAdd(p, q) ==
    IF Finite(p) /\ Finite(q)
    THEN LET g == Gcd(p[2], q[2])
         IN  Norm(p[1] * (q[2] \div g) + q[1] * (p[2] \div g),
                  (p[2] \div g) * q[2])
    ELSE NonFinite

RNeg(q) == <<-q[1], q[2]>>

RSub(p, q) == RAdd(p, RNeg(q))

RMul(p, q) ==
    IF Finite(p) /\ Finite(q)
    THEN LET g1 == Gcd(Abs(p[1]), q[2])
             g2 == Gcd(Abs(q[1]), p[2])
         IN  Norm((p[1] \div g1) * (q[1] \div g2),
                  (p[2] \div g2) * (q[2] \div g1))
    ELSE NonFinite

\* x / 0 is inf or NaN in floating point: no exception is raised.
RDiv(p, q) ==
    IF Finite(p) /\ Finite(q) /\ q[1] # 0
    THEN RMul(p, IF q[1] < 0 THEN <<-q[2], -q[1]>> ELSE <<q[2], q[1]>>)
    ELSE NonFinite

RLeq(p, q) == p[1] * q[2] <= q[1] * p[2]

RMax(p, q) ==
    IF Finite(p) /\ Finite(q) THEN (IF RLeq(p, q) THEN q ELSE p)
    ELSE NonFinite

RPos(q) == Finite(q) /\ q[1] > 0

(* ------------------------------ tensors -------------------------------- *)
\* [b, h, w, v]: batch size, height, width, and the DC bin of each batch
\* element.  A 0-dim scalar and an (N,1,1,1) tensor have h = w = 1.
\* Units: the equations of the solver are homogeneous, so kernel entries are
\* counted in units of 1e-3 and penalty weights, |H|^2 and 1/alpha in units
\* of 1e-6; the floor 1e-6 of SubNet.forward is then the number 1.
Tensor(b, h, w, v) == [b |-> b, h |-> h, w |-> w, v |-> SubSeq(v, 1, b)]

\* The value of an expression that raised (a shape mismatch), and of a local
\* that is not yet assigned.
BadT == [b |-> 0, h |-> 0, w |-> 0, v |-> <<>>]

IsBad(t) == t.b = 0 \/ t.h = 0 \/ t.w = 0

\* Broadcasting of one dimension: equal sizes, or one of them 1; 0 otherwise.
Bdim(a, c) ==
    IF a = c THEN a
    ELSE IF a = 1 THEN c
    ELSE IF c = 1 THEN a
    ELSE 0

Pick(t, i) == t.v[IF t.b = 1 THEN 1 ELSE i]

\* s op t, elementwise with broadcasting; BadT when the shapes do not
\* broadcast (torch raises RuntimeError) or an operand is already BadT.
Broadcast(Op(_, _), s, t) ==
    LET b == Bdim(s.b, t.b)
        h == Bdim(s.h, t.h)
        w == Bdim(s.w, t.w)
    IN  IF IsBad(s) \/ IsBad(t) \/ b = 0 \/ h = 0 \/ w = 0 THEN BadT
        ELSE Tensor(b, h, w, [i \in 1..b |-> Op(Pick(s, i), Pick(t, i))])

Elementwise(Op(_, _), s, t) ==
    Once2(LAMBDA a, c : Broadcast(Op, a, c), s, t)

TAdd(s, t) == Elementwise(RAdd, s, t)
TSub(s, t) == Elementwise(RSub, s, t)
TMul(s, t) == Elementwise(RMul, s, t)
TDiv(s, t) == Elementwise(RDiv, s, t)

Map(Op(_), t) ==
    Once(LAMBDA a : IF IsBad(a) THEN BadT
                    ELSE Tensor(a.b, a.h, a.w, [i \in 1..a.b |-> Op(a.v[i])]),
         t)

ZerosLike(t) == Map(LAMBDA q : R(0), t)

\* The same values under another spatial shape.
Reshape(t, h, w) ==
    Once(LAMBDA a : IF IsBad(a) THEN BadT ELSE Tensor(a.b, h, w, a.v), t)

Height(t) == Once(LAMBDA a : a.h, t)
Width(t) == Once(LAMBDA a : a.w, t)

Scalar(q) == Tensor(1, 1, 1, <<q>>)

(* ---------------- spectral utilities on controller tensors ------------- *)
\* pad_double: twice the extent along both axes; zero padding keeps the sum.
PadDoubleT(t) ==
    Once(LAMBDA a : IF IsBad(a) THEN BadT
                    ELSE Tensor(a.b, 2 * a.h, 2 * a.w, a.v), t)

\* crop_half: the centred half-size region.  The sum is kept: the model
\* follows the mass of the image and takes none to lie in the margin.
CropHalfT(t) ==
    Once(LAMBDA a : IF IsBad(a) THEN BadT
                    ELSE Tensor(a.b, a.h \div 2, a.w \div 2, a.v), t)

\* fft2(ifftshift(.)), fftshift(ifft2(.)).real: shape preserving; a cyclic
\* shift keeps the sum, and bin (0,0) of the transform is that sum.
Fft2Shift(t) == t
ShiftIfft2Real(t) == t

\* torch.conj, torch.abs(.)**2 on the DC bin, which is real.
Conj(t) == t
AbsSq(t) == Once(LAMBDA a : TMul(a, a), t)

(* -------------------- learned parameters (opaque) ---------------------- *)
\* den_w, den_b: the denoiser; cw, cb: the convolutions of SubNet.conv_layers;
\* SubNet.mlp, with two hidden units per hidden layer: l1f, l1b (first
\* Linear, weight and bias of the unit fed by the kernel feature; the other
\* unit passes alpha on), l2w, l2b (second Linear, same unit), and mw, ma,
\* mb, mj (third Linear: weights of the two units, bias, and the part of the
\* bias that differs per output index).
NetA ==
    [den_w |-> <<1, 2>>, den_b |-> R(0), cw |-> R(1), cb |-> R(0),
     l1f |-> R(-1024), l1b |-> R(1), l2w |-> R(-1), l2b |-> R(1),
     mw |-> R(1), ma |-> R(1), mb |-> R(-2), mj |-> R(1)]

NetB ==
    [den_w |-> R(1), den_b |-> R(1), cw |-> R(2), cb |-> R(-1),
     l1f |-> R(-1024), l1b |-> R(1), l2w |-> R(-1), l2b |-> R(1),
     mw |-> R(-1), ma |-> R(0), mb |-> R(0), mj |-> R(0)]

Nets == {NetA, NetB}

\* nn.BatchNorm2d: momentum 0.1, running_mean starts at 0.
Momentum == <<1, 10>>

\* SubNet.forward: "+ 1e-6", in the unit of the penalty weights.
Floor == R(1)

\* torch.ones(size=[n_iters,])
Ones(n) == [i \in 1..n |-> R(1)]

\* Values a training step or load_state_dict can leave in rho_iters: the
\* parameter is unconstrained.
RhoStart == {-1, 0}
RhoSlope == {0, 1}
Schedules(n) ==
    {[i \in 1..n |-> R(r + d * (i - 1))] : r \in RhoStart, d \in RhoSlope}

(* ------------------------------ SubNet --------------------------------- *)
RECURSIVE SumSeq(_, _)
SumSeq(v, k) == IF k = 0 THEN R(0) ELSE RAdd(SumSeq(v, k - 1), v[k])

\* nn.Conv2d(kernel_size=3, padding=1): shape preserving, affine.
Conv2d(t) == Map(LAMBDA q : RAdd(RMul(net.cw, q), net.cb), t)

\* Mean over the batch (and the spatial positions) of one channel.
BatchMean(t) == RDiv(SumSeq(t.v, t.b), R(t.b))

\* nn.BatchNorm2d: in training mode the statistics of the current batch, in
\* eval mode the running statistics.  Only the centring is modelled (the
\* division by the standard deviation is irrational).
BatchNorm2d(l, t) ==
    Once(LAMBDA a : Once(LAMBDA m : Map(LAMBDA q : RSub(q, m), a),
                         IF training THEN BatchMean(a) ELSE bn_mean[l]),
         t)

ReLU(t) == Map(LAMBDA q : RMax(q, R(0)), t)

\* nn.MaxPool2d(2): halves the spatial shape.
MaxPool2d(t) ==
    Once(LAMBDA a : Tensor(a.b, a.h \div 2, a.w \div 2, a.v), t)

\* Stage l of conv_layers (Down = MaxPool2d then DoubleConv; DoubleConv =
\* two stages conv => BN => ReLU), applied to the output of stage l - 1:
\* after its convolution, and after its ReLU.
StageConv(l, prev) == Conv2d(IF l % 2 = 1 THEN MaxPool2d(prev) ELSE prev)

StageOut(l, prev) == ReLU(BatchNorm2d(l, StageConv(l, prev)))

\* conv_layers(t0): <<t0, output of stage 1, ..., output of stage NumStages>>
RECURSIVE StagesFrom(_, _)
StagesFrom(l, acc) ==
    IF l > NumStages THEN acc
    ELSE Once(LAMBDA nxt : StagesFrom(l + 1, nxt),
              Append(acc, StageOut(l, acc[l])))

ConvLayers(t0) == StagesFrom(1, <<t0>>)

\* nn.Softplus in float32 arithmetic: strictly positive in exact arithmetic,
\* but log(1 + exp(x)) rounds to exactly 0 for very negative x and to x for
\* large x; the model keeps these two exact branches.
Softplus(q) == RMax(q, R(0))

\* self.mlp(x) + 1e-6 for one batch element, x = (feat, a): Linear, ReLU,
\* Linear, ReLU, Linear, Softplus; n outputs.
MlpRow(feat, a, n) ==
    LET h1f == RMax(RAdd(RMul(net.l1f, feat), net.l1b), R(0))
        h1a == RMax(a, R(0))
        h2f == RMax(RAdd(RMul(net.l2w, h1f), net.l2b), R(0))
        h2a == RMax(h1a, R(0))
        Out(hf, ha) ==
            SubSeq([j \in 1..n |->
                      RAdd(Softplus(RAdd(RAdd(RMul(net.mw, hf), RMul(net.ma, ha)),
                                         RAdd(net.mb, RMul(net.mj, R(j))))),
                           Floor)],
                   1, n)
    IN  Once2(Out, h2f, h2a)

\* SubNet.forward(kernel, alpha): [ok, sched], sched[i][j] the weight of
\* batch element i at iteration j.
SubNetForward(kernel, alpha) ==
    LET N     == kernel.b
        k_pad == Tensor(N, WorkSize, WorkSize, kernel.v)
        H     == Fft2Shift(k_pad)
        HtH   == AbsSq(H)
        \* x.view(N,1,16*8*8) and alpha.view(N,1,1)
        Cat(x) == IF x.h * x.w = 64 /\ alpha.b * alpha.h * alpha.w = N
                  THEN [ok |-> TRUE,
                        sched |-> SubSeq([i \in 1..N |->
                                     MlpRow(x.v[i], alpha.v[i], n_iters)],
                                         1, N)]
                  ELSE [ok |-> FALSE, sched |-> <<>>]
    IN  Once(Cat, ConvLayers(HtH)[NumStages + 1])

\* The running means the training-mode forward pass of SubNet leaves behind.
UpdatedMeans(kernel) ==
    LET HtH == AbsSq(Tensor(kernel.b, WorkSize, WorkSize, kernel.v))
    IN  Once(LAMBDA outs :
               SubSeq([l \in 1..NumStages |->
                         RAdd(RMul(RSub(R(1), Momentum), bn_mean[l]),
                              RMul(Momentum,
                                   Once(BatchMean, StageConv(l, outs[l]))))],
                      1, NumStages),
             ConvLayers(HtH))

(* --------------------------- the denoiser ------------------------------ *)
\* Z_Update_ResUNet.forward: self.net(z.float()), a shape-preserving map
\* applied to every image of the batch.
Denoise(x) == Map(LAMBDA q : RAdd(RMul(net.den_w, q), net.den_b), x)

(* ----------------------- the data-fidelity solver ---------------------- *)
\* X_Update_Gaussian.forward
XUpdate(Y, Ht, HtH, z, u, rho) ==
    LET lhs == TAdd(rho, HtH)
        rhs == TAdd(TMul(Ht, Y), Fft2Shift(PadDoubleT(TSub(TMul(rho, z), u))))
        x   == ShiftIfft2Real(TDiv(rhs, lhs))
    IN  CropHalfT(x)

\* Unrolled_ADMM_Gaussian.init_l2
InitL2(Y, Ht, HtH, alpha) ==
    LET rhs == TMul(Y, Ht)
        lhs == TAdd(HtH, TDiv(Scalar(R(1)), alpha))
        x0  == ShiftIfft2Real(TDiv(rhs, lhs))
    IN  CropHalfT(x0)

(* ------------- one invocation of Unrolled_ADMM_Gaussian.forward -------- *)
\* f holds the locals of the invocation, its position pc, and three records
\* kept for the properties: args (the arguments as passed), trace (the
\* computation steps performed, in order), hist (per finished iteration the
\* rho, x, z it used and the u it left) and z0 (the warm start).
IdleFrame ==
    [pc |-> "idle", args |-> <<>>, y |-> BadT, kernel |-> BadT, alpha |-> BadT,
     Y |-> BadT, H |-> BadT, Ht |-> BadT, HtH |-> BadT, rho_sched |-> <<>>,
     z |-> BadT, u |-> BadT, x |-> BadT, rho |-> BadT, i |-> 0,
     x_list |-> <<>>, result |-> BadT, err |-> "", trace |-> <<>>,
     z0 |-> BadT, hist |-> <<>>]

StartFrame(y, kernel, alpha) ==
    [IdleFrame EXCEPT !.pc = "clamp", !.args = <<y, kernel, alpha>>,
                      !.y = y, !.kernel = kernel, !.alpha = alpha]

Raise(fr, e) == [fr EXCEPT !.pc = "error", !.err = e]

\* line 120: y = torch.maximum(y, torch.zeros_like(y))
DoClamp(fr) ==
    [fr EXCEPT !.pc = "setup", !.y = Elementwise(RMax, fr.y, ZerosLike(fr.y))]

\* lines 123-125: Y, H, Ht, HtH
DoSetup(fr) ==
    Once2(LAMBDA Y, H : [fr EXCEPT !.pc = IF subnet THEN "subnet" ELSE "init_l2",
                                   !.Y = Y, !.H = H, !.Ht = Conj(H),
                                   !.HtH = AbsSq(H)],
          Fft2Shift(PadDoubleT(fr.y)), Fft2Shift(PadDoubleT(fr.kernel)))

\* lines 127-128: rho_iters = self.init(kernel, alpha)
DoSubNet(fr) ==
    Once(LAMBDA r : IF r.ok
                    THEN [fr EXCEPT !.pc = "init_l2", !.rho_sched = r.sched,
                                    !.trace = Append(@, "predict")]
                    ELSE Raise(fr, "RuntimeError"),
         SubNetForward(fr.kernel, fr.alpha))

\* line 129: z = self.init_l2(Y, Ht, HtH, alpha)
DoInitL2(fr) ==
    Once(LAMBDA z : IF IsBad(z) THEN Raise(fr, "RuntimeError")
                    ELSE [fr EXCEPT !.pc = "zeros", !.z = z, !.z0 = z,
                                    !.trace = Append(@, "warm")],
         InitL2(fr.Y, fr.Ht, fr.HtH, fr.alpha))

\* lines 134-138: u = torch.zeros_like(y); x_list = []
DoZeros(fr) ==
    [fr EXCEPT !.pc = "loop", !.u = ZerosLike(fr.y), !.x_list = <<>>, !.i = 0]

\* Mutant of LoopDone: range(self.n_iters - 1), one iteration short.
LoopDoneEarly(fr) == fr.i + 1 >= n_iters

\* line 139: for i in range(self.n_iters)
LoopDone(fr) == fr.i >= n_iters

\* lines 140-143: the penalty weight of iteration i
SelectRho(fr) ==
    IF subnet
    THEN Tensor(Len(fr.rho_sched), 1, 1,
                [b \in 1..Len(fr.rho_sched) |-> fr.rho_sched[b][fr.i + 1]])
    ELSE Scalar(rho_iters[fr.i + 1])

DoLoop(fr) ==
    IF LoopDone(fr) THEN [fr EXCEPT !.pc = "ret"]
    ELSE [fr EXCEPT !.pc = "X", !.rho = SelectRho(fr)]

\* line 146: x = self.X(Y, Ht, HtH, z, u, rho)
DoX(fr) ==
    Once(LAMBDA x : IF IsBad(x) THEN Raise(fr, "RuntimeError")
                    ELSE [fr EXCEPT !.pc = "Z", !.x = x,
                                    !.trace = Append(@, "solve")],
         XUpdate(fr.Y, fr.Ht, fr.HtH, fr.z, fr.u, fr.rho))

\* line 147: z = self.Z(x)
DoZ(fr) ==
    [fr EXCEPT !.pc = "U", !.z = Denoise(fr.x), !.trace = Append(@, "denoise")]

\* Mutant of DualUpdate: the residual with the wrong sign, u + z - x.
DualUpdateSwapped(u, x, z) == TSub(TAdd(u, z), x)

\* line 150: u = u + x - z
DualUpdate(u, x, z) == TSub(TAdd(u, x), z)

\* Mutant of Appended: x_list.append(x), the primal estimate.
AppendedPrimal(fr) == Append(fr.x_list, fr.x)

\* line 152: x_list.append(z)
Appended(fr) == Append(fr.x_list, fr.z)

\* lines 150-152, and the step of the loop counter
DoDual(fr) ==
    Once(LAMBDA u : IF IsBad(u) THEN Raise(fr, "RuntimeError")
                    ELSE [fr EXCEPT !.pc = "loop", !.u = u,
                                    !.x_list = Appended(fr),
                                    !.i = @ + 1, !.trace = Append(@, "dual"),
                                    !.hist = Append(@, [rho |-> fr.rho,
                                                        x |-> fr.x,
                                                        z |-> fr.z, u |-> u])],
         DualUpdate(fr.u, fr.x, fr.z))

\* line 154: return x_list[-1]
Returned(fr) == fr.x_list[Len(fr.x_list)]

DoReturn(fr) ==
    IF fr.x_list = <<>> THEN Raise(fr, "IndexError")
    ELSE [fr EXCEPT !.pc = "done", !.result = Returned(fr)]

Step(fr) ==
    CASE fr.pc = "clamp"   -> DoClamp(fr)
      [] fr.pc = "setup"   -> DoSetup(fr)
      [] fr.pc = "subnet"  -> DoSubNet(fr)
      [] fr.pc = "init_l2" -> DoInitL2(fr)
      [] fr.pc = "zeros"   -> DoZeros(fr)
      [] fr.pc = "loop"    -> DoLoop(fr)
      [] fr.pc = "X"       -> DoX(fr)
      [] fr.pc = "Z"       -> DoZ(fr)
      [] fr.pc = "U"       -> DoDual(fr)
      [] fr.pc = "ret"     -> DoReturn(fr)
      [] OTHER             -> fr

(* ------------------------------ inputs --------------------------------- *)
\* Two data patterns: d = 1, all batch elements alike; d = 2, all different
\* (and the first image negative, so that the clamp acts).
Patterns == {1, 2}
YVal(d, i) == IF d = 1 THEN R(2) ELSE R(2 * i - 3)
KVal(d, i) == IF d = 1 THEN R(1) ELSE R(i)
AVal(d, i) == IF d = 1 THEN R(2) ELSE R(i)

(* ------------------------------ actions -------------------------------- *)
\* nn.Module.eval() / train()
Eval ==
    /\ f.pc = "idle" /\ training
    /\ training' = FALSE
    /\ UNCHANGED <<n_iters, subnet, rho_iters, net, bn_mean, f, utilvars>>

Train ==
    /\ f.pc = "idle" /\ ~training
    /\ training' = TRUE
    /\ UNCHANGED <<n_iters, subnet, rho_iters, net, bn_mean, f, utilvars>>

\* An optimizer step or load_state_dict on the fixed schedule (line 110:
\* nn.Parameter, requires_grad=True).
LoadState ==
    /\ f.pc = "idle" /\ ~subnet /\ rho_iters = Ones(n_iters)
    /\ \E s \in Schedules(n_iters) \ {rho_iters} : rho_iters' = s
    /\ UNCHANGED <<n_iters, subnet, training, net, bn_mean, f, utilvars>>

\* A call model(y, kernel, alpha): image s x s, kernel k x k, alpha one
\* number per batch element.
Forward ==
    /\ f.pc = "idle"
    /\ \E by \in 1..MaxBatch, bk \in 1..MaxBatch, ba \in 1..MaxBatch,
          s \in 1..MaxSide, k \in 1..MaxSide, d \in Patterns :
          f' = StartFrame(Tensor(by, s, s, [i \in 1..by |-> YVal(d, i)]),
                          Tensor(bk, k, k, [i \in 1..bk |-> KVal(d, i)]),
                          Tensor(ba, 1, 1, [i \in 1..ba |-> AVal(d, i)]))
    /\ UNCHANGED <<modvars, utilvars>>

Clamp == f.pc = "clamp" /\ f' = DoClamp(f) /\ UNCHANGED <<modvars, utilvars>>

Setup == f.pc = "setup" /\ f' = DoSetup(f) /\ UNCHANGED <<modvars, utilvars>>

\* conv_layers runs before the views that can raise, so in training mode the
\* running statistics are updated either way.
SubNetStep ==
    /\ f.pc = "subnet"
    /\ f' = DoSubNet(f)
    /\ bn_mean' = IF training THEN UpdatedMeans(f.kernel) ELSE bn_mean
    /\ UNCHANGED <<n_iters, subnet, training, rho_iters, net, utilvars>>

WarmStart ==
    f.pc = "init_l2" /\ f' = DoInitL2(f) /\ UNCHANGED <<modvars, utilvars>>

Zeros == f.pc = "zeros" /\ f' = DoZeros(f) /\ UNCHANGED <<modvars, utilvars>>

Loop == f.pc = "loop" /\ f' = DoLoop(f) /\ UNCHANGED <<modvars, utilvars>>

XStep == f.pc = "X" /\ f' = DoX(f) /\ UNCHANGED <<modvars, utilvars>>

ZStep == f.pc = "Z" /\ f' = DoZ(f) /\ UNCHANGED <<modvars, utilvars>>

DualStep == f.pc = "U" /\ f' = DoDual(f) /\ UNCHANGED <<modvars, utilvars>>

Return == f.pc = "ret" /\ f' = DoReturn(f) /\ UNCHANGED <<modvars, utilvars>>

\* After __init__(n_iters, subnet=...): training mode, default parameters.
Init ==
    /\ n_iters \in 0..MaxIters
    /\ subnet \in BOOLEAN
    /\ training = TRUE
    /\ rho_iters = IF subnet THEN <<>> ELSE Ones(n_iters)
    /\ net \in Nets
    /\ bn_mean = [l \in 1..NumStages |-> R(0)]
    /\ f = IdleFrame
    /\ upc = "off" /\ ua = <<>> /\ ub = <<>>

Next ==
    \/ Eval \/ Train \/ LoadState \/ Forward \/ Clamp \/ Setup \/ SubNetStep
    \/ WarmStart \/ Zeros \/ Loop \/ XStep \/ ZStep \/ DualStep \/ Return

Spec == Init /\ [][Next]_vars

(* ------------------------- the claims, under Spec ---------------------- *)
Called == f.pc # "idle"

ArgY == f.args[1]
ArgK == f.args[2]
ArgA == f.args[3]

\* Same batch size everywhere, kernel of the image's spatial shape.
SameShapes ==
    /\ ArgY.b = ArgK.b /\ ArgA.b = ArgY.b
    /\ ArgK.h = ArgY.h /\ ArgK.w = ArgY.w

RECURSIVE Count(_, _)
Count(s, e) ==
    IF s = <<>> THEN 0
    ELSE (IF Head(s) = e THEN 1 ELSE 0) + Count(Tail(s), e)

\* forward() run to its end from frame fr.
RECURSIVE RunToEnd(_)
RunToEnd(fr) ==
    IF fr.pc \in {"idle", "done", "error"} THEN fr ELSE Once(RunToEnd, Step(fr))

\* Batch element i of a tensor, as a batch of one.
Slice(t, i) == Tensor(1, t.h, t.w, <<t.v[i]>>)

\* The invocation on batch element i alone.
Solo(i) == RunToEnd(StartFrame(Slice(ArgY, i), Slice(ArgK, i), Slice(ArgA, i)))

\* C1: with n_iters = 0 and consistent inputs, forward does not end in an
\* error, and what it returns is the warm start of init_l2, with no call of
\* the denoiser.
C1_ZeroIterations ==
    (Called /\ n_iters = 0 /\ SameShapes) =>
        /\ f.pc # "error"
        /\ f.pc = "done" => (f.result = f.z0 /\ Count(f.trace, "denoise") = 0)

\* C2: for n_iters >= 1 the value returned is the z the denoiser computed in
\* the last iteration, from that iteration's x.
C2_ReturnsLastZ ==
    f.pc = "done" =>
        /\ n_iters >= 1
        /\ Len(f.hist) = n_iters
        /\ f.result = f.hist[n_iters].z
        /\ f.result = Denoise(f.hist[n_iters].x)

\* A finished run of at least two iterations whose result differs from the
\* last primal estimate and from the previous auxiliary estimate.
C2_Witness ==
    /\ f.pc = "done" /\ n_iters >= 2
    /\ f.result # f.hist[n_iters].x
    /\ f.result # f.hist[n_iters - 1].z

\* The steps of a complete run, in order.
RECURSIVE Iterations(_)
Iterations(k) ==
    IF k = 0 THEN <<>> ELSE Iterations(k - 1) \o <<"solve", "denoise", "dual">>

ExpectedTrace ==
    (IF subnet THEN <<"predict">> ELSE <<>>) \o <<"warm">> \o Iterations(n_iters)

IsPrefix(s, t) == Len(s) <= Len(t) /\ s = SubSeq(t, 1, Len(s))

\* C3 (amended): the weight predictor runs exactly once, before the first
\* iteration, when it is enabled, and not at all when it is disabled; every
\* iteration is solve, denoise, dual update in this order, and the loop ends
\* after exactly n_iters iterations, with n_iters denoiser calls.
C3_StepOrder ==
    /\ IsPrefix(f.trace, ExpectedTrace)
    /\ f.pc \in {"ret", "done"} =>
          /\ f.trace = ExpectedTrace
          /\ f.i = n_iters
          /\ Count(f.trace, "denoise") = n_iters
          /\ Count(f.trace, "predict") = IF subnet THEN 1 ELSE 0

\* A finished run of two or more iterations with the predictor enabled.
C3_Witness == f.pc = "done" /\ subnet /\ n_iters >= 2 /\ f.i = n_iters

\* C3 as stated: in every invocation the weight predictor runs exactly once.
C3_PredictorAlwaysOnce ==
    f.pc \in {"ret", "done"} =>
        /\ Count(f.trace, "predict") = 1
        /\ Count(f.trace, "denoise") = n_iters

\* C4: for a kernel not larger than the image, H (and Ht, HtH) has the shape
\* of Y, twice the image's height and width.
C4_OtfHasWorkingSize ==
    (f.pc \notin {"idle", "clamp", "setup"}
        /\ ArgK.h <= ArgY.h /\ ArgK.w <= ArgY.w) =>
        /\ f.H.h = 2 * ArgY.h /\ f.H.w = 2 * ArgY.w
        /\ f.H.h = f.Y.h /\ f.H.w = f.Y.w
        /\ f.Ht.h = f.Y.h /\ f.Ht.w = f.Y.w
        /\ f.HtH.h = f.Y.h /\ f.HtH.w = f.Y.w

\* C5: the rho handed to the solver is strictly positive in every iteration;
\* with the predictor it is at least the floor.
C5_RhoPositive ==
    f.pc = "X" =>
        \A b \in 1..f.rho.b :
            /\ RPos(f.rho.v[b])
            /\ subnet => RLeq(Floor, f.rho.v[b])

\* Batch sizes that differ, or a kernel larger than the image.
Inconsistent ==
    \/ ArgY.b # ArgK.b \/ ArgA.b # ArgY.b
    \/ ArgK.h > ArgY.h \/ ArgK.w > ArgY.w

\* C7: with inconsistent dimensions forward never completes with a result,
\* and no computation step is performed before the error.
C7_RejectsInconsistent ==
    (Called /\ Inconsistent) => (f.pc # "done" /\ f.trace = <<>>)

\* C8: in a batch of two, every value computed for a batch element (weights,
\* primal, auxiliary, dual, result) is the one computed when that element is
\* restored alone.
C8_BatchIndependent ==
    (f.pc = "done" /\ ArgY.b = 2 /\ ArgK.b = 2 /\ ArgA.b = 2) =>
        \A b \in 1..2 :
            LET s == Solo(b)
            IN  /\ s.pc = "done"
                /\ f.result.v[b] = s.result.v[1]
                /\ \A k \in 1..n_iters :
                      /\ Pick(f.hist[k].rho, b) = s.hist[k].rho.v[1]
                      /\ f.hist[k].x.v[b] = s.hist[k].x.v[1]
                      /\ f.hist[k].z.v[b] = s.hist[k].z.v[1]
                      /\ f.hist[k].u.v[b] = s.hist[k].u.v[1]

\* The sum over the first k iterations of x_j - z_j.
RECURSIVE ResidualSum(_)
ResidualSum(k) ==
    IF k = 0 THEN ZerosLike(f.y)
    ELSE Once(LAMBDA acc : TAdd(acc, TSub(f.hist[k].x, f.hist[k].z)),
              ResidualSum(k - 1))

PrevZ(k) == IF k = 1 THEN f.z0 ELSE f.hist[k - 1].z
PrevU(k) == IF k = 1 THEN ZerosLike(f.y) ELSE f.hist[k - 1].u

\* C10: u is zero (of the image's shape) when the first iteration starts;
\* iteration k solves with the z and u the iteration before left, and leaves
\* u + x - z; after k iterations u is the sum of x_j - z_j over j = 1..k.
C10_DualAccumulates ==
    f.pc \in {"loop", "X", "Z", "U", "ret", "done"} =>
        /\ Len(f.hist) = f.i
        /\ f.i = 0 =>
              /\ f.u.b = f.y.b /\ f.u.h = f.y.h /\ f.u.w = f.y.w
              /\ \A b \in 1..f.u.b : f.u.v[b] = R(0)
        /\ f.u = ResidualSum(f.i)
        /\ \A k \in 1..f.i :
              /\ f.hist[k].x =
                    XUpdate(f.Y, f.Ht, f.HtH, PrevZ(k), PrevU(k), f.hist[k].rho)
              /\ f.hist[k].u = TSub(TAdd(PrevU(k), f.hist[k].x), f.hist[k].z)

\* A finished run of two or more iterations that left a finite non-zero u.
C10_Witness ==
    /\ f.pc = "done" /\ n_iters >= 2
    /\ \E b \in 1..f.u.b : Finite(f.u.v[b]) /\ f.u.v[b] # R(0)

(* ---------- padding, cropping and origin shift on whole arrays --------- *)
\* An array is a sequence of rows.  The entry of the input at row r, column
\* c (from 1) is the tag <<r, c>>; a zero written by padding is <<0, 0>>.
Zero == <<0, 0>>

Rows(a) == Len(a)
Cols(a) == IF Len(a) = 0 THEN 0 ELSE Len(a[1])

Array(h, w, E(_, _)) ==
    SubSeq([r \in 1..h |-> SubSeq([c \in 1..w |-> E(r, c)], 1, w)], 1, h)

Tagged(h, w) == Array(h, w, LAMBDA r, c : <<r, c>>)

\* F.pad(a, (left, right, top, bottom), "constant", 0); a negative amount
\* crops.
Pad(a, left, right, top, bottom) ==
    Array(top + Rows(a) + bottom, left + Cols(a) + right,
          LAMBDA r, c : IF r - top \in 1..Rows(a) /\ c - left \in 1..Cols(a)
                        THEN a[r - top][c - left] ELSE Zero)

\* torch.fft.ifftshift(a, dim=(-2,-1)): out[i] = in[(i + n // 2) mod n] along
\* both axes (indices from 0).
IfftShift(a) ==
    Array(Rows(a), Cols(a),
          LAMBDA r, c : a[((r - 1 + Rows(a) \div 2) % Rows(a)) + 1]
                         [((c - 1 + Cols(a) \div 2) % Cols(a)) + 1])

\* Mutant of PadDouble: the larger margin first.
PadDoubleCeilFirst(a) ==
    Pad(a, Cols(a) - Cols(a) \div 2, Cols(a) \div 2,
           Rows(a) - Rows(a) \div 2, Rows(a) \div 2)

\* pad_double: zero padding to twice the extent along both axes, the image
\* centred (floor of the margin before, ceiling after).
PadDouble(a) ==
    Pad(a, Cols(a) \div 2, Cols(a) - Cols(a) \div 2,
           Rows(a) \div 2, Rows(a) - Rows(a) \div 2)

\* crop_half: the centred region of half the extent along both axes.
CropHalf(a) ==
    Array(Rows(a) \div 2, Cols(a) \div 2,
          LAMBDA r, c : a[r + Rows(a) \div 4][c + Cols(a) \div 4])

\* SubNet.forward, lines 64-67: k_pad
SubNetPad(a) ==
    LET h  == Rows(a)
        w  == Cols(a)
        h1 == (WorkSize - h) \div 2
        h2 == -((h - WorkSize) \div 2)
        w1 == (WorkSize - w) \div 2
        w2 == -((w - WorkSize) \div 2)
    IN  Pad(a, w1, w2, h1, h2)

\* A slice lo:hi of an axis of length n as the indices <<first, last>> (from
\* 1); the slice is empty when last < first.
SliceTo(k, n) == <<1, IF k < n THEN k ELSE n>>
SliceFrom(k, n) == <<(IF k < n THEN k ELSE n) + 1, n>>
SliceLast(k, n) == <<(IF k < n THEN n - k ELSE 0) + 1, n>>
Extent(s) == IF s[2] < s[1] THEN 0 ELSE s[2] - s[1] + 1

\* psf[tr, tc] = ker[sr, sc]: [ok, a].  The source must have the target's
\* extent along each axis, or extent 1 (it is then repeated); otherwise the
\* assignment raises.
Assign(p, tr, tc, ker, sr, sc) ==
    IF /\ p.ok
       /\ Extent(sr) = Extent(tr) \/ Extent(sr) = 1
       /\ Extent(sc) = Extent(tc) \/ Extent(sc) = 1
    THEN [ok |-> TRUE,
          a |-> Array(Rows(p.a), Cols(p.a),
                  LAMBDA r, c :
                    IF r \in tr[1]..tr[2] /\ c \in tc[1]..tc[2]
                    THEN ker[IF Extent(sr) = 1 THEN sr[1] ELSE sr[1] + r - tr[1]]
                            [IF Extent(sc) = 1 THEN sc[1] ELSE sc[1] + c - tc[1]]
                    ELSE p.a[r][c])]
    ELSE [ok |-> FALSE, a |-> <<>>]

\* psf_to_otf(ker, size), lines 70-77: the shifted array psf, [ok, a].
PsfToOtf(ker, H, W) ==
    LET h      == Rows(ker)
        w      == Cols(ker)
        center == (h + 1) \div 2
        p0 == [ok |-> TRUE, a |-> Array(H, W, LAMBDA r, c : Zero)]
        A1(p) == Assign(p, SliceTo(center, H), SliceTo(center, W),
                        ker, SliceFrom(center, h), SliceFrom(center, w))
        A2(p) == Assign(p, SliceTo(center, H), SliceLast(center, W),
                        ker, SliceFrom(center, h), SliceTo(center, w))
        A3(p) == Assign(p, SliceLast(center, H), SliceTo(center, W),
                        ker, SliceTo(center, h), SliceFrom(center, w))
        A4(p) == Assign(p, SliceLast(center, H), SliceLast(center, W),
                        ker, SliceTo(center, h), SliceTo(center, w))
    IN  Once(A4, Once(A3, Once(A2, Once(A1, p0))))

(* ---------------------- the utilities as a machine --------------------- *)
\* ua is the input array, ub the array the last operation produced.
UPadDouble ==
    /\ upc = "start"
    /\ ub' = PadDouble(ua) /\ upc' = "padded"
    /\ UNCHANGED <<modvars, f, ua>>

UCropHalf ==
    /\ upc = "padded"
    /\ ub' = CropHalf(ub) /\ upc' = "cropped"
    /\ UNCHANGED <<modvars, f, ua>>

\* forward, line 124: ifftshift(pad_double(kernel))
UShiftPadded ==
    /\ upc = "padded"
    /\ ub' = IfftShift(ub) /\ upc' = "shifted"
    /\ UNCHANGED <<modvars, f, ua>>

USubNetPad ==
    /\ upc = "start"
    /\ ub' = SubNetPad(ua) /\ upc' = "kpad"
    /\ UNCHANGED <<modvars, f, ua>>

\* SubNet.forward, line 68: ifftshift(k_pad)
USubNetShift ==
    /\ upc = "kpad"
    /\ ub' = IfftShift(ub) /\ upc' = "kshift"
    /\ UNCHANGED <<modvars, f, ua>>

\* psf_to_otf(ker, [1, 1, S, S]) for a size not smaller than the kernel
UPsfToOtf ==
    /\ upc = "start"
    /\ \E S \in 1..(MaxKer + 1) :
          /\ S >= Rows(ua) /\ S >= Cols(ua)
          /\ LET p == PsfToOtf(ua, S, S)
             IN  /\ ub' = p.a
                 /\ upc' = IF p.ok THEN "otf" ELSE "otf_error"
    /\ UNCHANGED <<modvars, f, ua>>

InitUtil ==
    /\ n_iters = 0 /\ subnet = FALSE /\ training = TRUE /\ rho_iters = <<>>
    /\ net = NetA /\ bn_mean = [l \in 1..NumStages |-> R(0)] /\ f = IdleFrame
    /\ upc = "start"
    /\ \E h \in 1..MaxKer, w \in 1..MaxKer : ua = Tagged(h, w)
    /\ ub = ua

NextUtil ==
    \/ UPadDouble \/ UCropHalf \/ UShiftPadded \/ USubNetPad \/ USubNetShift
    \/ UPsfToOtf

SpecUtil == InitUtil /\ [][NextUtil]_vars

(* ----------------------- the claims, under SpecUtil -------------------- *)
\* The kernel's geometric centre, index (floor(h/2), floor(w/2)) from 0.
Centre == <<Rows(ua) \div 2 + 1, Cols(ua) \div 2 + 1>>

\* C6: pad_double gives twice the extent along both axes with the image
\* centred in it and zeros around, and crop_half(pad_double(X)) = X, for
\* every height and width.
C6_RoundTrip ==
    /\ upc = "padded" =>
          /\ Rows(ub) = 2 * Rows(ua) /\ Cols(ub) = 2 * Cols(ua)
          /\ \A r \in 1..Rows(ub), c \in 1..Cols(ub) :
                LET r0 == r - Rows(ua) \div 2
                    c0 == c - Cols(ua) \div 2
                IN  ub[r][c] = IF r0 \in 1..Rows(ua) /\ c0 \in 1..Cols(ua)
                               THEN ua[r0][c0] ELSE Zero
    /\ upc = "cropped" => ub = ua

\* The round trip done on an image of odd height and even width.
C6_Witness == upc = "cropped" /\ Rows(ua) = 3 /\ Cols(ua) = 2 /\ ub = ua

\* C9: after the pad to the working size and the origin shift of
\* SubNet.forward, and after psf_to_otf, the kernel's centre entry is at
\* index (0,0), for every kernel size.
C9_CentreAtOrigin ==
    /\ upc = "kshift" => ub[1][1] = Centre
    /\ upc # "otf_error"
    /\ upc = "otf" => ub[1][1] = Centre
====
